---- MODULE Spec2Model ----
(***************************************************************************)
(* NeuroCloud: the self-healing engine (healing_engine.py) and the anomaly *)
(* detector it drives (anomaly_detector.py).                               *)
(*                                                                         *)
(* Time is the wall clock read by datetime.now(), counted in whole units   *)
(* of one minute; the cooldown period is timedelta(minutes=5).  The clock  *)
(* never runs backwards.  In Spec the healing log can always be written;   *)
(* in FaultSpec writing it may fail.                                       *)
(***************************************************************************)
EXTENDS Integers, Sequences, FiniteSets, TLC

(* ---------------------------- bounds ----------------------------------- *)
\* the clock stops advancing here
MaxTime == 6
\* the longest healing ledger explored
MaxLedger == 4
\* the longest time one analyze_and_heal call takes
MaxStep == 1
\* the samples one run of the API process generates
MaxSamples == 3

(* ------------------------- program constants --------------------------- *)
\* timedelta(minutes=5)
CooldownMinutes == 5
\* if error_rate > 5
ErrorRateCritical == 5
\* len(df) < 50
TrainingFloor == 50
\* detect(): the limits behind the reported issues
IssueCpu == 85
IssueMemory == 80
IssueResponseTime == 1000
IssueErrorRate == 5

\* app.py: the length above which background_monitoring drops the oldest log
SystemLogsCap == 100
\* save_metrics: the number of samples data/metrics.json keeps
MetricsCap == 1000

\* Python's None is the empty tuple and any other value v is Some(v), so that an
\* optional value is always a tuple; a missing file reads like None
None == <<>>
Some(v) == <<v>>
Get(o) == o[1]
NoFile == None
\* an action kind that is not a key of last_actions
NoEntry == -1

KindOrder ==
    <<"cpu_optimization", "memory_cleanup", "performance_optimization", "error_recovery">>
Kinds == {KindOrder[i] : i \in 1..Len(KindOrder)}

\* the default configuration of load_config
DefaultConfig ==
    [healing |-> [auto_restart |-> TRUE, max_restart_attempts |-> 3, cooldown_minutes |-> 5],
     thresholds |-> [cpu_critical |-> 90, memory_critical |-> 85,
                     response_time_critical |-> 5000]]

\* a config/config.json an operator may have written
CustomConfig ==
    [healing |-> [auto_restart |-> TRUE, max_restart_attempts |-> 3, cooldown_minutes |-> 2],
     thresholds |-> [cpu_critical |-> 95, memory_critical |-> 85,
                     response_time_critical |-> 5000]]

ConfigFiles == {NoFile, Some(CustomConfig)}

Sample(cpu, memory, rt, errors) ==
    [cpu_usage |-> cpu, memory_usage |-> memory, response_time |-> rt, error_rate |-> errors]

\* the metric samples explored: every metric at its default critical threshold,
\* cpu between the two configured thresholds, and breaches of two and of all
\* four thresholds
Samples ==
    {Sample(90, 85, 5000, 5), Sample(95, 85, 5000, 5), Sample(98, 92, 5000, 5),
     Sample(98, 92, 6000, 6)}

\* a sample as a dict that lacks the key field
Without(metrics, field) == [f \in DOMAIN metrics \ {field} |-> metrics[f]]

\* samples that lack a metric: the cpu usage, or the error rate
PartialSamples ==
    {Without(Sample(98, 92, 6000, 6), "cpu_usage"),
     Without(Sample(98, 92, 6000, 6), "error_rate")}

\* the threads that call into one shared engine
Callers == {"caller1", "caller2"}

\* the heal_* methods the callers of a shared engine run: heal_high_cpu and
\* heal_high_memory
SharedKinds == {"cpu_optimization", "memory_cleanup"}

\* the threads of the API process: background_monitoring, and the one that
\* serves a POST /api/anomaly/inject
ApiThreads == {"monitor", "handler"}

\* a thread that is not inside save_metrics
Idle == [pc |-> "idle", anomaly_type |-> None, metrics |-> None, data |-> <<>>]

\* the sizes of the training corpora explored
CorpusSizes == {0, TrainingFloor - 1, TrainingFloor, TrainingFloor + 1}

\* a fitted IsolationForest is a fixed decision function of the sample; the
\* fitted forests explored isolate every sample, no sample, or the samples
\* under heavy cpu load
Unfitted == "unfitted"
FittedModels == {"isolates_all", "isolates_none", "isolates_load"}

VARIABLES
    now,              \* datetime.now()
    pc,               \* "start" before HealingEngine() is constructed, then "running";
                      \* "detector" in a process that drives an AnomalyDetector itself
    config_file,      \* config/config.json: NoFile or its content
    metrics_rows,     \* data/metrics.json: NoFile or its number of rows
    model_file,       \* models/anomaly_detector.pkl: NoFile or the pickled blob
    config,           \* HealingEngine.config
    cooldown_period,  \* HealingEngine.cooldown_period
    healing_history,  \* HealingEngine.healing_history (the ledger)
    last_actions,     \* HealingEngine.last_actions (the cooldown table)
    is_trained,       \* AnomalyDetector.is_trained
    model,            \* AnomalyDetector.model (with its scaler)
    op,               \* the operation that ran last
    arg,              \* its argument
    is_anomaly,       \* analyze_and_heal's local is_anomaly, as detect returned it
    ret,              \* what the operation returned
    log_ok,           \* can logs/healing_log.json be written
    raised,           \* did the operation end in an exception instead of returning
    in_heal,          \* per caller of a shared engine: the kind whose heal_* method
                      \* it is inside, past the cooldown check, or "idle"
    time_step,        \* app.py: generator.time_step
    latest_metrics,   \* app.py: latest_metrics
    metrics_json,     \* data/metrics.json as the API process reads and writes it:
                      \* the list of its samples
    system_logs,      \* app.py: system_logs
    api               \* per thread of the API process: where it is, and its locals

vars == <<now, pc, config_file, metrics_rows, model_file, config, cooldown_period,
          healing_history, last_actions, is_trained, model, op, arg, is_anomaly, ret,
          log_ok, raised, in_heal, time_step, latest_metrics, metrics_json,
          system_logs, api>>

\* the state of the API process (app.py)
api_vars == <<time_step, latest_metrics, metrics_json, system_logs, api>>

(* ------------------------- AnomalyDetector ----------------------------- *)

\* the metric of a sample that triggers a kind
Trigger(k, metrics) ==
    CASE k = "cpu_optimization" -> metrics.cpu_usage
      [] k = "memory_cleanup" -> metrics.memory_usage
      [] k = "performance_optimization" -> metrics.response_time
      [] k = "error_recovery" -> metrics.error_rate

\* IsolationForest.predict on the scaled sample: -1 = anomaly, 1 = normal
predict(m, metrics) ==
    CASE m = "isolates_all" -> -1
      [] m = "isolates_none" -> 1
      [] m = "isolates_load" -> IF metrics.cpu_usage > 95 THEN -1 ELSE 1
      [] OTHER -> 1

SelectSeq2(s, keep) == SelectSeq(s, LAMBDA x : x \in keep)

\* the problematic metrics detect reports, in feature_columns order
problematic_metrics(metrics) ==
    SelectSeq2(<<"High CPU", "High Memory", "Slow Response", "High Errors">>,
        (IF metrics.cpu_usage > IssueCpu THEN {"High CPU"} ELSE {})
        \cup (IF metrics.memory_usage > IssueMemory THEN {"High Memory"} ELSE {})
        \cup (IF metrics.response_time > IssueResponseTime THEN {"Slow Response"} ELSE {})
        \cup (IF metrics.error_rate > IssueErrorRate THEN {"High Errors"} ELSE {}))

\* AnomalyDetector.feature_columns, as far as samples are modelled
feature_columns == <<"cpu_usage", "memory_usage", "response_time", "error_rate">>

\* prepare_features on the one-row frame of a sample: df[self.feature_columns]
\* raises KeyError when a column is absent (a column that is present and NaN
\* stays NaN under fillna with the mean of that one row, and predict raises)
prepare_features_raises(metrics) ==
    \E i \in 1..Len(feature_columns) : feature_columns[i] \notin DOMAIN metrics

\* does detect end in an exception: not before its is_trained guard
detect_raises(trained, metrics) == trained /\ prepare_features_raises(metrics)

\* detect without its is_trained guard
detect_unguarded(trained, m, metrics) ==
    IF predict(m, metrics) = -1
    THEN [is_anomaly |-> Some(TRUE), issues |-> problematic_metrics(metrics)]
    ELSE [is_anomaly |-> Some(FALSE), issues |-> <<>>]

\* AnomalyDetector.detect where it does not raise: (is_anomaly, score, issues);
\* the score is left out
detect(trained, m, metrics) ==
    IF ~trained
    THEN [is_anomaly |-> None, issues |-> <<"Model not trained yet">>]
    ELSE IF predict(m, metrics) = -1
         THEN [is_anomaly |-> Some(TRUE), issues |-> problematic_metrics(metrics)]
         ELSE [is_anomaly |-> Some(FALSE), issues |-> <<>>]

\* AnomalyDetector.load_data, as the number of rows read (None without a file)
load_data(rows) == rows

\* train with the test len(df) <= 50
train_accepts_above(df, rows) ==
    LET data == IF df = None THEN load_data(rows) ELSE df
    IN  IF data = None THEN FALSE ELSE ~(Get(data) <= TrainingFloor)

\* AnomalyDetector.train: does the corpus pass the floor
train_accepts(df, rows) ==
    LET data == IF df = None THEN load_data(rows) ELSE df
    IN  IF data = None THEN FALSE ELSE ~(Get(data) < TrainingFloor)

\* AnomalyDetector.train: the detector states it may leave, with its return value
train(trained, m, df, rows) ==
    IF ~train_accepts(df, rows)
    THEN {[is_trained |-> trained, model |-> m, ok |-> FALSE]}
    ELSE {[is_trained |-> TRUE, model |-> f, ok |-> TRUE] : f \in FittedModels}

\* AnomalyDetector.save_model: the pickled blob
save_model(trained, m) == [is_trained |-> trained, model |-> m]

(* --------------------------- HealingEngine ----------------------------- *)

\* dict.get(key, default)
get(metrics, key, default) == IF key \in DOMAIN metrics THEN metrics[key] ELSE default

\* HealingEngine.load_config
load_config(file) == IF file # NoFile THEN Get(file) ELSE DefaultConfig

\* can_perform_action with the comparison elapsed >= cooldown_period
can_perform_action_geq(la, action_type, t) ==
    IF la[action_type] = NoEntry
    THEN TRUE
    ELSE (t - la[action_type]) >= cooldown_period

\* HealingEngine.can_perform_action at clock reading t
can_perform_action(la, action_type, t) ==
    IF la[action_type] = NoEntry
    THEN TRUE
    ELSE (t - la[action_type]) > cooldown_period

\* HealingEngine.save_healing_log: TRUE when the file is written, FALSE when
\* open() or json.dump raises
save_healing_log(ok) == ok

\* log_action that puts the entry at the head of the ledger
log_action_prepend(st, action_type, details, t1, t2) ==
    LET log_entry == [timestamp |-> t1, action |-> action_type,
                      details |-> details, status |-> "executed"]
    IN  [hist |-> <<log_entry>> \o st.hist,
         la   |-> [st.la EXCEPT ![action_type] = t2],
         t    |-> t2,
         t0   |-> st.t0,
         ok   |-> st.ok,
         out  |-> IF save_healing_log(st.ok) THEN Append(st.out, log_entry) ELSE st.out,
         raised |-> ~save_healing_log(st.ok)]

\* log_action that replaces the cooldown table by one holding the recorded kind
log_action_fresh_table(st, action_type, details, t1, t2) ==
    LET log_entry == [timestamp |-> t1, action |-> action_type,
                      details |-> details, status |-> "executed"]
    IN  [hist |-> Append(st.hist, log_entry),
         la   |-> [k \in Kinds |-> IF k = action_type THEN t2 ELSE NoEntry],
         t    |-> t2,
         t0   |-> st.t0,
         ok   |-> st.ok,
         out  |-> IF save_healing_log(st.ok) THEN Append(st.out, log_entry) ELSE st.out,
         raised |-> ~save_healing_log(st.ok)]

\* log_action without the write to last_actions
log_action_norecord(st, action_type, details, t1, t2) ==
    LET log_entry == [timestamp |-> t1, action |-> action_type,
                      details |-> details, status |-> "executed"]
    IN  [hist |-> Append(st.hist, log_entry),
         la   |-> st.la,
         t    |-> t2,
         t0   |-> st.t0,
         ok   |-> st.ok,
         out  |-> IF save_healing_log(st.ok) THEN Append(st.out, log_entry) ELSE st.out,
         raised |-> ~save_healing_log(st.ok)]

\* log_action that keeps the first timestamp of a kind in last_actions
log_action_setdefault(st, action_type, details, t1, t2) ==
    LET log_entry == [timestamp |-> t1, action |-> action_type,
                      details |-> details, status |-> "executed"]
    IN  [hist |-> Append(st.hist, log_entry),
         la   |-> IF st.la[action_type] = NoEntry
                  THEN [st.la EXCEPT ![action_type] = t2]
                  ELSE st.la,
         t    |-> t2,
         t0   |-> st.t0,
         ok   |-> st.ok,
         out  |-> IF save_healing_log(st.ok) THEN Append(st.out, log_entry) ELSE st.out,
         raised |-> ~save_healing_log(st.ok)]

\* HealingEngine.log_action: the entry is stamped at t1, the cooldown table at
\* t2, then the log is saved; when saving raises, the caller gets no entry back
log_action(st, action_type, details, t1, t2) ==
    LET log_entry == [timestamp |-> t1, action |-> action_type,
                      details |-> details, status |-> "executed"]
    IN  [hist |-> Append(st.hist, log_entry),
         la   |-> [st.la EXCEPT ![action_type] = t2],
         t    |-> t2,
         t0   |-> st.t0,
         ok   |-> st.ok,
         out  |-> IF save_healing_log(st.ok) THEN Append(st.out, log_entry) ELSE st.out,
         raised |-> ~save_healing_log(st.ok)]

\* heal_* that may give up after its simulated steps, before log_action
heal_may_give_up(st, action_type, value) ==
    IF st.raised
    THEN {st}
    ELSE IF ~can_perform_action(st.la, action_type, st.t)
    THEN {st}
    ELSE {st} \cup {log_action(st, action_type, value, t1, t2) :
            <<t1, t2>> \in {p \in (st.t..MaxTime) \X (st.t..MaxTime) :
                             p[1] <= p[2] /\ p[2] <= st.t0 + MaxStep}}

\* the body shared by the four heal_* methods: the cooldown check at st.t, the
\* simulated steps (time passes), then log_action, which reads the clock twice;
\* st.t0 is the time the call of analyze_and_heal began.  Once a heal_* call
\* has raised, the exception is on its way out of analyze_and_heal and no
\* later heal_* call runs
heal(st, action_type, value) ==
    IF st.raised
    THEN {st}
    ELSE IF ~can_perform_action(st.la, action_type, st.t)
    THEN {st}
    ELSE {log_action(st, action_type, value, t1, t2) :
            <<t1, t2>> \in {p \in (st.t..MaxTime) \X (st.t..MaxTime) :
                             p[1] <= p[2] /\ p[2] <= st.t0 + MaxStep}}

heal_high_cpu(st, cpu_usage) == heal(st, "cpu_optimization", cpu_usage)
heal_high_memory(st, memory_usage) == heal(st, "memory_cleanup", memory_usage)
heal_slow_response(st, response_time) == heal(st, "performance_optimization", response_time)
heal_high_errors(st, error_rate) == heal(st, "error_recovery", error_rate)

\* the cpu check with the comparison cpu >= cpu_critical
after_cpu_geq(st, cfg, metrics) ==
    IF get(metrics, "cpu_usage", 0) >= cfg.thresholds.cpu_critical
    THEN heal_high_cpu(st, get(metrics, "cpu_usage", 0)) ELSE {st}

\* the four threshold checks of analyze_and_heal, in their order
after_cpu(st, cfg, metrics) ==
    IF get(metrics, "cpu_usage", 0) > cfg.thresholds.cpu_critical
    THEN heal_high_cpu(st, get(metrics, "cpu_usage", 0)) ELSE {st}

after_memory(st, cfg, metrics) ==
    IF get(metrics, "memory_usage", 0) > cfg.thresholds.memory_critical
    THEN heal_high_memory(st, get(metrics, "memory_usage", 0)) ELSE {st}

after_response_time(st, cfg, metrics) ==
    IF get(metrics, "response_time", 0) > cfg.thresholds.response_time_critical
    THEN heal_slow_response(st, get(metrics, "response_time", 0)) ELSE {st}

after_error_rate(st, cfg, metrics) ==
    IF get(metrics, "error_rate", 0) > ErrorRateCritical
    THEN heal_high_errors(st, get(metrics, "error_rate", 0)) ELSE {st}

\* how analyze_and_heal ends: with the value of its return statement, or
\* without one when detect or a heal_* call raised
Returned(st, value) ==
    [hist |-> st.hist, la |-> st.la, t |-> st.t, raised |-> st.raised,
     ret |-> IF st.raised THEN None ELSE value]

\* analyze_and_heal that scores the sample after the four checks
analyze_and_heal_detect_last(st, cfg, trained, m, metrics) ==
    {Returned(IF detect_raises(trained, metrics) THEN [s4 EXCEPT !.raised = TRUE] ELSE s4,
              Some(s4.out)) :
        s4 \in UNION {UNION {UNION {after_error_rate(s3, cfg, metrics) :
                                       s3 \in after_response_time(s2, cfg, metrics)} :
                                s2 \in after_memory(s1, cfg, metrics)} :
                         s1 \in after_cpu(st, cfg, metrics)}}

\* analyze_and_heal with the memory check ahead of the cpu check
analyze_and_heal_memory_first(st, cfg, trained, m, metrics) ==
    IF detect_raises(trained, metrics)
    THEN {Returned([st EXCEPT !.raised = TRUE], None)}
    ELSE IF detect(trained, m, metrics).is_anomaly # Some(TRUE)
    THEN {Returned(st, None)}
    ELSE {Returned(s4, Some(s4.out)) :
            s4 \in UNION {UNION {UNION {after_error_rate(s3, cfg, metrics) :
                                           s3 \in after_response_time(s2, cfg, metrics)} :
                                    s2 \in after_cpu(s1, cfg, metrics)} :
                             s1 \in after_memory(st, cfg, metrics)}}

\* HealingEngine.analyze_and_heal: the states it may leave, with what it returns
\* ("if not is_anomaly" takes None as it takes False)
analyze_and_heal(st, cfg, trained, m, metrics) ==
    IF detect_raises(trained, metrics)
    THEN {Returned([st EXCEPT !.raised = TRUE], None)}
    ELSE IF detect(trained, m, metrics).is_anomaly # Some(TRUE)
    THEN {Returned(st, None)}
    ELSE {Returned(s4, Some(s4.out)) :
            s4 \in UNION {UNION {UNION {after_error_rate(s3, cfg, metrics) :
                                           s3 \in after_response_time(s2, cfg, metrics)} :
                                    s2 \in after_memory(s1, cfg, metrics)} :
                             s1 \in after_cpu(st, cfg, metrics)}}

(* ------------- the healing process: run_healing_system ----------------- *)

Init ==
    /\ now = 0
    /\ pc = "start"
    /\ config_file \in ConfigFiles
    /\ metrics_rows \in {NoFile, Some(TrainingFloor - 1), Some(TrainingFloor)}
    /\ model_file = NoFile
    /\ config = DefaultConfig
    /\ cooldown_period = CooldownMinutes
    /\ healing_history = <<>>
    /\ last_actions = [k \in Kinds |-> NoEntry]
    /\ is_trained = FALSE
    /\ model = Unfitted
    /\ op = "none"
    /\ arg = None
    /\ is_anomaly = None
    /\ ret = None
    /\ log_ok = TRUE
    /\ raised = FALSE
    /\ in_heal = [c \in Callers |-> "idle"]
    /\ time_step = 0
    /\ latest_metrics = None
    /\ metrics_json = <<>>
    /\ system_logs = <<>>
    /\ api = [t \in ApiThreads |-> Idle]

\* HealingEngine.__init__
HealingEngineInit ==
    /\ pc = "start"
    /\ pc' = "running"
    /\ healing_history' = <<>>
    /\ cooldown_period' = CooldownMinutes
    /\ last_actions' = [k \in Kinds |-> NoEntry]
    /\ config' = load_config(config_file)
    /\ IF model_file # NoFile
       THEN /\ is_trained' = Get(model_file).is_trained
            /\ model' = Get(model_file).model
            /\ UNCHANGED model_file
       ELSE \E r \in train(FALSE, Unfitted, None, metrics_rows) :
                /\ is_trained' = r.is_trained
                /\ model' = r.model
                /\ model_file' = Some(save_model(r.is_trained, r.model))
    /\ op' = "HealingEngine"
    /\ arg' = None
    /\ ret' = None
    /\ raised' = FALSE
    /\ UNCHANGED <<api_vars, in_heal, now, config_file, metrics_rows, is_anomaly, log_ok>>

\* the wall clock advances
Tick ==
    /\ now < MaxTime
    /\ now' = now + 1
    /\ UNCHANGED <<api_vars, in_heal, pc, config_file, metrics_rows, model_file, config, cooldown_period,
                   healing_history, last_actions, is_trained, model, op, arg,
                   is_anomaly, ret, log_ok, raised>>

\* engine.analyze_and_heal(metrics), by the one caller
Call(metrics) ==
    /\ \E r \in analyze_and_heal([hist |-> healing_history, la |-> last_actions,
                                  t |-> now, t0 |-> now, out |-> <<>>,
                                  ok |-> log_ok, raised |-> FALSE],
                                 config, is_trained, model, metrics) :
          /\ Len(r.hist) <= MaxLedger
          /\ healing_history' = r.hist
          /\ last_actions' = r.la
          /\ now' = r.t
          /\ op' = "analyze_and_heal"
          /\ arg' = Some(metrics)
          /\ is_anomaly' = IF detect_raises(is_trained, metrics) THEN None
                           ELSE detect(is_trained, model, metrics).is_anomaly
          /\ ret' = r.ret
          /\ raised' = r.raised
          \* run_healing_system catches KeyboardInterrupt only
          /\ pc' = IF r.raised THEN "crashed" ELSE pc
    /\ UNCHANGED <<api_vars, in_heal, config_file, metrics_rows, model_file, config, cooldown_period,
                   is_trained, model, log_ok>>

\* the latest row of the metric log is a complete sample
AnalyzeAndHeal ==
    /\ pc = "running"
    /\ \E metrics \in Samples : Call(metrics)

\* the latest row of the metric log lacks a metric
AnalyzeAndHealPartial ==
    /\ pc = "running"
    /\ \E metrics \in PartialSamples : Call(metrics)

\* KeyboardInterrupt, or the end of a crashed process: its files stay for the
\* next run
Stop ==
    /\ pc \in {"running", "crashed"}
    /\ pc' = "start"
    /\ config' = DefaultConfig
    /\ cooldown_period' = CooldownMinutes
    /\ healing_history' = <<>>
    /\ last_actions' = [k \in Kinds |-> NoEntry]
    /\ is_trained' = FALSE
    /\ model' = Unfitted
    /\ op' = "none"
    /\ arg' = None
    /\ is_anomaly' = None
    /\ ret' = None
    /\ raised' = FALSE
    /\ UNCHANGED <<api_vars, in_heal, now, config_file, metrics_rows, model_file, log_ok>>

Next ==
    \/ HealingEngineInit
    \/ Tick
    \/ AnalyzeAndHeal
    \/ Stop

Spec == Init /\ [][Next]_vars

(* --- the healing process with a disk that may refuse writes and a ------- *)
(* --- metric log that may hold incomplete rows --------------------------- *)

\* the disk fills up, or room is made on it
DiskChange ==
    /\ pc = "running"
    /\ log_ok' = ~log_ok
    /\ UNCHANGED <<api_vars, in_heal, now, pc, config_file, metrics_rows, model_file, config, cooldown_period,
                   healing_history, last_actions, is_trained, model, op, arg,
                   is_anomaly, ret, raised>>

FaultNext ==
    \/ Next
    \/ DiskChange
    \/ AnalyzeAndHealPartial

FaultSpec == Init /\ [][FaultNext]_vars

(* ------------- a process that drives an AnomalyDetector ---------------- *)

DetectorInit ==
    /\ now = 0
    /\ pc = "detector"
    /\ config_file = NoFile
    /\ metrics_rows \in {NoFile, Some(TrainingFloor - 1), Some(TrainingFloor)}
    /\ model_file = NoFile
    /\ config = DefaultConfig
    /\ cooldown_period = CooldownMinutes
    /\ healing_history = <<>>
    /\ last_actions = [k \in Kinds |-> NoEntry]
    /\ is_trained = FALSE
    /\ model = Unfitted
    /\ op = "none"
    /\ arg = None
    /\ is_anomaly = None
    /\ ret = None
    /\ log_ok = TRUE
    /\ raised = FALSE
    /\ in_heal = [c \in Callers |-> "idle"]
    /\ time_step = 0
    /\ latest_metrics = None
    /\ metrics_json = <<>>
    /\ system_logs = <<>>
    /\ api = [t \in ApiThreads |-> Idle]

\* detector.load_model()
LoadModel ==
    /\ pc = "detector"
    /\ IF model_file = NoFile
       THEN /\ ret' = Some(FALSE)
            /\ UNCHANGED <<in_heal, is_trained, model>>
       ELSE /\ is_trained' = Get(model_file).is_trained
            /\ model' = Get(model_file).model
            /\ ret' = Some(TRUE)
    /\ op' = "load_model"
    /\ arg' = None
    /\ UNCHANGED <<api_vars, in_heal, now, pc, config_file, metrics_rows, model_file, config, cooldown_period,
                   healing_history, last_actions, is_anomaly, log_ok>>
    /\ raised' = FALSE

\* detector.train(df)
Train ==
    /\ pc = "detector"
    /\ \E df \in {Some(n) : n \in CorpusSizes} \cup {None} :
       \E r \in train(is_trained, model, df, metrics_rows) :
          /\ is_trained' = r.is_trained
          /\ model' = r.model
          /\ op' = "train"
          /\ arg' = df
          /\ ret' = Some(r.ok)
    /\ UNCHANGED <<api_vars, in_heal, now, pc, config_file, metrics_rows, model_file, config, cooldown_period,
                   healing_history, last_actions, is_anomaly, log_ok>>
    /\ raised' = FALSE

\* detector.save_model()
SaveModel ==
    /\ pc = "detector"
    /\ model_file' = Some(save_model(is_trained, model))
    /\ op' = "save_model"
    /\ arg' = None
    /\ ret' = None
    /\ UNCHANGED <<api_vars, in_heal, now, pc, config_file, metrics_rows, config, cooldown_period,
                   healing_history, last_actions, is_trained, model, is_anomaly,
                   log_ok>>
    /\ raised' = FALSE

\* detector.detect(metrics)
Detect ==
    /\ pc = "detector"
    /\ \E metrics \in Samples \cup PartialSamples :
          /\ op' = "detect"
          /\ arg' = Some(metrics)
          /\ raised' = detect_raises(is_trained, metrics)
          /\ ret' = IF detect_raises(is_trained, metrics) THEN None
                    ELSE Some(detect(is_trained, model, metrics))
    /\ UNCHANGED <<api_vars, in_heal, now, pc, config_file, metrics_rows, model_file, config, cooldown_period,
                   healing_history, last_actions, is_trained, model, is_anomaly,
                   log_ok>>

DetectorNext ==
    \/ LoadModel
    \/ Train
    \/ SaveModel
    \/ Detect

DetectorSpec == DetectorInit /\ [][DetectorNext]_vars

(* ------ one engine shared by two threads that call its heal_* methods --- *)

SharedInit ==
    /\ now = 0
    /\ pc = "shared"
    /\ config_file = NoFile
    /\ metrics_rows = Some(TrainingFloor)
    /\ model_file = Some(save_model(TRUE, "isolates_all"))
    /\ config = DefaultConfig
    /\ cooldown_period = CooldownMinutes
    /\ healing_history = <<>>
    /\ last_actions = [k \in Kinds |-> NoEntry]
    /\ is_trained = TRUE
    /\ model = "isolates_all"
    /\ op = "HealingEngine"
    /\ arg = None
    /\ is_anomaly = None
    /\ ret = None
    /\ log_ok = TRUE
    /\ raised = FALSE
    /\ in_heal = [c \in Callers |-> "idle"]
    /\ time_step = 0
    /\ latest_metrics = None
    /\ metrics_json = <<>>
    /\ system_logs = <<>>
    /\ api = [t \in ApiThreads |-> Idle]

\* time.sleep in a heal_* method, or between calls
SharedTick ==
    /\ now < MaxTime
    /\ now' = now + 1
    /\ UNCHANGED <<api_vars, pc, config_file, metrics_rows, model_file, config, cooldown_period,
                   healing_history, last_actions, is_trained, model, op, arg,
                   is_anomaly, ret, log_ok, raised, in_heal>>

\* a caller enters heal_high_cpu or heal_high_memory and passes
\* "if not self.can_perform_action(...): return None"; the prints and sleeps of
\* the simulated steps follow
CanPerformAction(c) ==
    /\ in_heal[c] = "idle"
    /\ \E k \in SharedKinds :
          /\ can_perform_action(last_actions, k, now)
          /\ in_heal' = [in_heal EXCEPT ![c] = k]
    /\ UNCHANGED <<api_vars, now, pc, config_file, metrics_rows, model_file, config, cooldown_period,
                   healing_history, last_actions, is_trained, model, op, arg,
                   is_anomaly, ret, log_ok, raised>>

\* the caller reaches self.log_action(...) and returns
LogAction(c) ==
    /\ in_heal[c] # "idle"
    /\ Len(healing_history) < MaxLedger
    /\ \E metrics \in {Sample(98, 92, 6000, 6)} :
          LET r == log_action([hist |-> healing_history, la |-> last_actions, t |-> now,
                               t0 |-> now, out |-> <<>>, ok |-> log_ok, raised |-> FALSE],
                              in_heal[c], Trigger(in_heal[c], metrics), now, now)
          IN  /\ healing_history' = r.hist
              /\ last_actions' = r.la
    /\ in_heal' = [in_heal EXCEPT ![c] = "idle"]
    /\ UNCHANGED <<api_vars, now, pc, config_file, metrics_rows, model_file, config, cooldown_period,
                   is_trained, model, op, arg, is_anomaly, ret, log_ok, raised>>

SharedNext ==
    \/ SharedTick
    \/ \E c \in Callers : CanPerformAction(c)
    \/ \E c \in Callers : LogAction(c)

SharedSpec == SharedInit /\ [][SharedNext]_vars

(* ------------- the API process: app.py and MetricGenerator ------------- *)

\* what the generate_* methods draw: the base values, or a cpu spike (+30)
\* with a latency spike (+1000)
GeneratedReadings == {Sample(40, 50, 200, 1), Sample(70, 50, 1200, 1)}

\* the "type" a POST /api/anomaly/inject may carry
InjectTypes == {"cpu", "memory", "response_time", "disk"}

\* MetricGenerator.inject_anomaly: the values it may return, the ends of each
\* range; None for a type it does not know
inject_anomaly(metric_type) ==
    CASE metric_type = "cpu" -> {Some(95), Some(100)}
      [] metric_type = "memory" -> {Some(90), Some(100)}
      [] metric_type = "response_time" -> {Some(4000), Some(5000)}
      [] OTHER -> {None}

\* MetricGenerator.generate_all_metrics at time step step, given what the
\* generate_* methods drew and what inject_anomaly returned; the timestamp is
\* the time step, and disk_usage, network_throughput and active_connections
\* are left out
generate_all_metrics(step, reading, inject, anomaly_value) ==
    LET metrics == [k \in {"timestamp"} \cup DOMAIN reading |->
                       IF k = "timestamp" THEN step ELSE reading[k]]
    IN  IF inject # None /\ anomaly_value # None
        THEN [k \in DOMAIN metrics \cup {Get(inject)} |->
                 IF k = Get(inject) THEN Get(anomaly_value) ELSE metrics[k]]
        ELSE metrics

\* MetricGenerator.save_metrics, after the file was read into data: what it
\* writes back
save_metrics(data, metrics) ==
    LET appended == Append(data, metrics)
    IN  IF Len(appended) > MetricsCap
        THEN SubSeq(appended, Len(appended) - MetricsCap + 1, Len(appended))
        ELSE appended

\* the samples and the warnings n rounds of background_monitoring leave when
\* the detector reports each sample
EarlierSamples(n) ==
    [i \in 1..n |-> generate_all_metrics(i, Sample(40, 50, 200, 1), None, None)]
EarlierLogs(n) == [i \in 1..n |-> [type |-> "warning", metrics |-> EarlierSamples(n)[i]]]

\* the process has just started, or background_monitoring has been through
\* SystemLogsCap - 1 rounds with a detector that reports every sample
ApiInit ==
    /\ now = 0
    /\ pc = "api"
    /\ config_file = NoFile
    /\ config = DefaultConfig
    /\ cooldown_period = CooldownMinutes
    /\ healing_history = <<>>
    /\ last_actions = [k \in Kinds |-> NoEntry]
    /\ \E d \in {[is_trained |-> FALSE, model |-> Unfitted]}
                 \cup {[is_trained |-> TRUE, model |-> f] : f \in FittedModels} :
          /\ is_trained = d.is_trained
          /\ model = d.model
          /\ model_file = IF d.is_trained THEN Some(save_model(TRUE, d.model)) ELSE NoFile
    /\ op = "none"
    /\ arg = None
    /\ is_anomaly = None
    /\ ret = None
    /\ log_ok = TRUE
    /\ raised = FALSE
    /\ in_heal = [c \in Callers |-> "idle"]
    /\ time_step \in {0} \cup {n \in {SystemLogsCap - 1} : model = "isolates_all"}
    /\ latest_metrics = IF time_step = 0 THEN None
                        ELSE Some(EarlierSamples(time_step)[time_step])
    /\ metrics_json = EarlierSamples(time_step)
    /\ metrics_rows = Some(Len(metrics_json))
    /\ system_logs = EarlierLogs(time_step)
    /\ api = [t \in ApiThreads |-> Idle]

\* the time step the explored part of a run began at
Started == IF time_step >= SystemLogsCap - 1 THEN SystemLogsCap - 1 ELSE 0

\* background_monitoring: generate_all_metrics(), latest_metrics = metrics,
\* and save_metrics up to the point where it has read the file
MonitorGenerate ==
    /\ pc = "api"
    /\ api["monitor"].pc = "idle"
    /\ time_step < Started + MaxSamples
    /\ \E reading \in GeneratedReadings :
          LET metrics == generate_all_metrics(time_step + 1, reading, None, None)
          IN  /\ latest_metrics' = Some(metrics)
              /\ api' = [api EXCEPT !["monitor"] =
                            [pc |-> "saving", anomaly_type |-> None,
                             metrics |-> Some(metrics), data |-> metrics_json]]
    /\ time_step' = time_step + 1
    /\ UNCHANGED <<now, pc, config_file, metrics_rows, model_file, config, cooldown_period,
                   healing_history, last_actions, is_trained, model, op, arg,
                   is_anomaly, ret, log_ok, raised, in_heal, metrics_json, system_logs>>

\* background_monitoring: save_metrics writes the file; then, with a trained
\* detector that reports the sample, a warning is logged and the oldest log
\* is dropped when there are more than SystemLogsCap
MonitorSave ==
    /\ pc = "api"
    /\ api["monitor"].pc = "saving"
    /\ LET metrics == Get(api["monitor"].metrics)
           logged == Append(system_logs, [type |-> "warning", metrics |-> metrics])
       IN  /\ metrics_json' = save_metrics(api["monitor"].data, metrics)
           /\ system_logs' =
                 IF is_trained /\ detect(is_trained, model, metrics).is_anomaly = Some(TRUE)
                 THEN IF Len(logged) > SystemLogsCap THEN Tail(logged) ELSE logged
                 ELSE system_logs
    /\ metrics_rows' = Some(Len(metrics_json'))
    /\ api' = [api EXCEPT !["monitor"] = Idle]
    /\ UNCHANGED <<now, pc, config_file, model_file, config, cooldown_period,
                   healing_history, last_actions, is_trained, model, op, arg,
                   is_anomaly, ret, log_ok, raised, in_heal, time_step, latest_metrics>>

\* POST /api/anomaly/inject: generate_all_metrics(inject_anomaly=type),
\* latest_metrics = metrics, and save_metrics up to the point where it has
\* read the file
InjectGenerate ==
    /\ pc = "api"
    /\ api["handler"].pc = "idle"
    /\ time_step < Started + MaxSamples
    /\ \E anomaly_type \in InjectTypes :
       \E reading \in GeneratedReadings :
       \E anomaly_value \in inject_anomaly(anomaly_type) :
          LET metrics == generate_all_metrics(time_step + 1, reading,
                                              Some(anomaly_type), anomaly_value)
          IN  /\ latest_metrics' = Some(metrics)
              /\ api' = [api EXCEPT !["handler"] =
                            [pc |-> "saving", anomaly_type |-> Some(anomaly_type),
                             metrics |-> Some(metrics), data |-> metrics_json]]
    /\ time_step' = time_step + 1
    /\ UNCHANGED <<now, pc, config_file, metrics_rows, model_file, config, cooldown_period,
                   healing_history, last_actions, is_trained, model, op, arg,
                   is_anomaly, ret, log_ok, raised, in_heal, metrics_json, system_logs>>

\* POST /api/anomaly/inject: save_metrics writes the file, an error is
\* logged, and the handler returns
InjectSave ==
    /\ pc = "api"
    /\ api["handler"].pc = "saving"
    /\ LET metrics == Get(api["handler"].metrics)
       IN  /\ metrics_json' = save_metrics(api["handler"].data, metrics)
           /\ system_logs' = Append(system_logs, [type |-> "error", metrics |-> metrics])
    /\ metrics_rows' = Some(Len(metrics_json'))
    /\ api' = [api EXCEPT !["handler"] = Idle]
    /\ UNCHANGED <<now, pc, config_file, model_file, config, cooldown_period,
                   healing_history, last_actions, is_trained, model, op, arg,
                   is_anomaly, ret, log_ok, raised, in_heal, time_step, latest_metrics>>

ApiNext ==
    \/ MonitorGenerate
    \/ MonitorSave
    \/ InjectGenerate
    \/ InjectSave

ApiSpec == ApiInit /\ [][ApiNext]_vars

(* ------------------------------ claims --------------------------------- *)

\* the clock readings at which the cooldown check is evaluated
Readings == 0..(MaxTime + CooldownMinutes + 1)

\* C1: cooldown exclusion. A kind without an entry in the cooldown table may
\* fire at any time; a kind recorded at time t may not fire at any reading
\* t' <= t + cooldown duration and may fire at every reading after that.
C1_CooldownExclusion ==
    \A k \in Kinds : \A t \in Readings :
        IF last_actions[k] = NoEntry
        THEN can_perform_action(last_actions, k, t)
        ELSE /\ last_actions[k] <= now
             /\ can_perform_action(last_actions, k, t)
                    <=> (t > last_actions[k] + cooldown_period)

\* C1 witness: one kind is recorded and its cooldown is over while another
\* kind, recorded later, is still in its cooldown and a third was never recorded
C1_Witness ==
    \E k1, k2, k3 \in Kinds :
        /\ last_actions[k1] # NoEntry /\ now > last_actions[k1] + cooldown_period
        /\ last_actions[k2] # NoEntry /\ now <= last_actions[k2] + cooldown_period
        /\ last_actions[k3] = NoEntry

\* the positions of the ledger
Ledger == 1..Len(healing_history)

\* C2: no two ledger entries of one action kind have timestamps within one
\* cooldown duration of each other.
C2_NoRepeatWithinCooldown ==
    \A i, j \in Ledger :
        (i < j /\ healing_history[i].action = healing_history[j].action)
            => healing_history[j].timestamp - healing_history[i].timestamp > cooldown_period

\* C2 witness: a kind was dispatched twice
C2_Witness ==
    \E i, j \in Ledger :
        i < j /\ healing_history[i].action = healing_history[j].action

\* C3: the cooldown a recorded kind waits for is the configured
\* healing.cooldown_minutes: it is eligible again exactly when more than that
\* many minutes have passed since it was recorded.
C3_ConfiguredCooldown ==
    pc = "running" =>
        \A k \in Kinds : \A t \in Readings :
            last_actions[k] # NoEntry =>
                (can_perform_action(last_actions, k, t)
                    <=> (t - last_actions[k] > config.healing.cooldown_minutes))

\* the spec names no capacity; every capacity below the longest ledger
\* explored is refuted alike, and this is the largest of them
LedgerCapacity == MaxLedger - 1

\* C4: the ledger never holds more entries than its capacity.
C4_BoundedLedger == Len(healing_history) <= LedgerCapacity

\* the place of a kind in the dispatch order
KindIndex(k) ==
    CASE k = "cpu_optimization" -> 1
      [] k = "memory_cleanup" -> 2
      [] k = "performance_optimization" -> 3
      [] k = "error_recovery" -> 4

\* the threshold of a kind: configured for three of them, fixed for the error rate
Threshold(k, cfg) ==
    CASE k = "cpu_optimization" -> cfg.thresholds.cpu_critical
      [] k = "memory_cleanup" -> cfg.thresholds.memory_critical
      [] k = "performance_optimization" -> cfg.thresholds.response_time_critical
      [] k = "error_recovery" -> ErrorRateCritical

Breached(k, metrics, cfg) == Trigger(k, metrics) > Threshold(k, cfg)

Max(S) == CHOOSE x \in S : \A y \in S : y <= x

\* the kinds of a list of ledger entries
KindsOf(entries) == {entries[i].action : i \in 1..Len(entries)}

\* the entries a step appends to the ledger
Appended == SubSeq(healing_history', Len(healing_history) + 1, Len(healing_history'))

\* a step that is a call of analyze_and_heal: the call is the operation that
\* ran last and the step is no tick of the clock (a tick moves the clock and
\* nothing else, a call moves the clock only when it appends to the ledger)
CallStep ==
    /\ op' = "analyze_and_heal"
    /\ ~(now' # now /\ healing_history' = healing_history)

\* the clock reading at which a call that dispatched the kinds in done checks
\* the cooldown of kind k: the call's start, or the moment the last kind
\* dispatched ahead of k was recorded
Moment(k, done) ==
    Max({now} \cup {last_actions'[j] : j \in {d \in done : KindIndex(d) < KindIndex(k)}})

\* kind k is breached by the sample of the call and out of its cooldown
Due(k, done) ==
    /\ Breached(k, Get(arg'), config)
    /\ \/ last_actions[k] = NoEntry
       \/ Moment(k, done) - last_actions[k] > cooldown_period

C5_Step ==
    LET app == Appended
        done == KindsOf(app)
        due == {k \in Kinds : Due(k, done)}
    IN  /\ Len(healing_history') >= Len(healing_history)
        /\ SubSeq(healing_history', 1, Len(healing_history)) = healing_history
        /\ ret' # None
        /\ done = due
        /\ Len(app) = Cardinality(due)
        /\ \A i \in 1..Len(app) :
              /\ app[i].details = Trigger(app[i].action, Get(arg'))
              /\ app[i].status = "executed"
        /\ \A k \in Kinds \ due : last_actions'[k] = last_actions[k]
        /\ due = {} =>
              /\ ret' = Some(<<>>)
              /\ healing_history' = healing_history
              /\ last_actions' = last_actions

\* C5: a call on an anomalous sample appends exactly one entry for every kind
\* whose metric is strictly above its threshold and whose cooldown check passes
\* at that moment; every other kind gets no entry and keeps its cooldown-table
\* entry, the call returns a list, and when no kind is due the list is empty
\* and the ledger and the cooldown table are unchanged.
C5_OneEntryPerDueKind ==
    [][(CallStep /\ is_anomaly' = Some(TRUE)) => C5_Step]_vars

\* C5 witness: an anomalous sample breached cpu and memory and not the error
\* rate; cpu was in its cooldown and skipped, memory was dispatched
C5_Witness ==
    /\ op = "analyze_and_heal"
    /\ is_anomaly = Some(TRUE)
    /\ ret # None
    /\ Breached("cpu_optimization", Get(arg), config)
    /\ ~Breached("error_recovery", Get(arg), config)
    /\ KindsOf(Get(ret)) = {"memory_cleanup"}

\* the last n entries of the ledger
LedgerTail(n) ==
    SubSeq(healing_history, Len(healing_history) - n + 1, Len(healing_history))

\* C6: the list a call returns and the entries it appended to the ledger are
\* the same sequence, and its kinds follow the order cpu_optimization,
\* memory_cleanup, performance_optimization, error_recovery.
C6_FixedDispatchOrder ==
    (op = "analyze_and_heal" /\ ret # None) =>
        /\ Len(Get(ret)) <= Len(healing_history)
        /\ LedgerTail(Len(Get(ret))) = Get(ret)
        /\ \A i, j \in 1..Len(Get(ret)) :
              i < j => KindIndex(Get(ret)[i].action) < KindIndex(Get(ret)[j].action)

\* C6 witness: one call dispatched all four kinds
C6_Witness ==
    /\ op = "analyze_and_heal"
    /\ ret # None
    /\ Len(Get(ret)) = Len(KindOrder)

\* C7: re-arming. When the last call dispatched a set of kinds and the same
\* sample is given again at a time when, for each of those kinds, more than the
\* cooldown duration has passed since it was recorded, the call dispatches
\* every one of those kinds again and moves each one's last-fired timestamp
\* strictly forward.
C7_RearmAfterCooldown ==
    [][(/\ op = "analyze_and_heal"
        /\ ret # None
        /\ CallStep
        /\ arg' = arg
        /\ \A k \in KindsOf(Get(ret)) : now - last_actions[k] > cooldown_period)
       => (/\ ret' # None
           /\ KindsOf(Get(ret)) \subseteq KindsOf(Get(ret'))
           /\ KindsOf(Get(ret)) \subseteq KindsOf(Appended)
           /\ \A k \in KindsOf(Get(ret)) : last_actions'[k] > last_actions[k])]_vars

\* C7 witness: the ledger holds two rounds of the same two kinds with the same
\* trigger values, and the second round is what the last call returned
C7_Witness ==
    /\ op = "analyze_and_heal"
    /\ ret # None
    /\ Len(healing_history) = 4
    /\ Get(ret) = <<healing_history[3], healing_history[4]>>
    /\ healing_history[1].action = healing_history[3].action
    /\ healing_history[2].action = healing_history[4].action
    /\ healing_history[1].details = healing_history[3].details
    /\ healing_history[2].details = healing_history[4].details
    /\ \A k \in KindsOf(Get(ret)) : last_actions[k] > healing_history[2].timestamp

\* C8: a call on a sample the detector judges not anomalous returns an empty
\* action list and leaves the ledger, the cooldown table and the detector as
\* they were.
C8_NotAnomalousReturnsEmptyList ==
    [][(CallStep /\ is_anomaly' = Some(FALSE))
       => (/\ ret' = Some(<<>>)
           /\ healing_history' = healing_history
           /\ last_actions' = last_actions
           /\ is_trained' = is_trained
           /\ model' = model)]_vars

\* a step that is a call of train
TrainStep == op' = "train"

\* the corpus a call of train(df) works on: df, or the metrics file
Corpus(df) == IF df = None THEN metrics_rows ELSE df

\* C9: the training floor. train on no corpus or on fewer than 50 rows returns
\* False and leaves is_trained as it was; on 50 rows or more it returns True
\* and is_trained is true.
C9_TrainingFloor ==
    [][TrainStep =>
        IF Corpus(arg') = None \/ Get(Corpus(arg')) < 50
        THEN ret' = Some(FALSE) /\ is_trained' = is_trained
        ELSE ret' = Some(TRUE) /\ is_trained' = TRUE]_vars

\* C9 witness: train failed on a corpus one row short of the floor and the
\* detector, trained before, is trained still
C9_Witness ==
    /\ op = "train"
    /\ arg = Some(TrainingFloor - 1)
    /\ ret = Some(FALSE)
    /\ is_trained

\* C10: scoring before training. With is_trained false, the call of detect in
\* analyze_and_heal gives no verdict and is_trained stays false; the call
\* dispatches nothing and changes neither the ledger nor the cooldown table.
C10_UntrainedScoresNothing ==
    [][(CallStep /\ ~is_trained)
       => (/\ is_anomaly' = None
           /\ detect(is_trained, model, Get(arg')).issues = <<"Model not trained yet">>
           /\ ~is_trained'
           /\ ret' \in {None, Some(<<>>)}
           /\ healing_history' = healing_history
           /\ last_actions' = last_actions)]_vars

\* C10 witness: a call was made on an untrained detector with a sample that
\* breaches all four thresholds
C10_Witness ==
    /\ op = "analyze_and_heal"
    /\ ~is_trained
    /\ is_anomaly = None
    /\ \A k \in Kinds : Breached(k, Get(arg), config)

\* C11: construction does not skip training silently: a HealingEngine that
\* has finished construction and takes samples has a trained detector.
C11_ConstructedIsTrained == pc = "running" => is_trained

\* what a call handed back to its caller: the list of its return statement,
\* nothing when it returned None or raised
HandedBack == IF ret' = None THEN <<>> ELSE Get(ret')

\* C12: an error raised while one kind executes (here: persisting the log)
\* leaves no partial write and stops no other kind: the entries a call
\* appends are the entries it hands back, only kinds handed back move in the
\* cooldown table, and every kind that is breached and out of its cooldown is
\* handed back.
C12_ErrorIsolation ==
    [][(CallStep /\ log_ok' = log_ok /\ is_anomaly' = Some(TRUE)) =>
          /\ Appended = HandedBack
          /\ \A k \in Kinds :
                last_actions'[k] # last_actions[k] => k \in KindsOf(HandedBack)
          /\ \A k \in Kinds :
                Due(k, KindsOf(Appended)) => k \in KindsOf(HandedBack)]_vars

\* the engine as a call of analyze_and_heal at clock reading t finds it
Engine(hist, la, ok, t) ==
    [hist |-> hist, la |-> la, t |-> t, t0 |-> t, out |-> <<>>, ok |-> ok,
     raised |-> FALSE]

\* a step that is a call of analyze_and_heal in which detect raised
DetectRaisedStep ==
    /\ pc = "running"
    /\ op' = "analyze_and_heal"
    /\ raised'
    /\ detect_raises(is_trained, Get(arg'))

\* C13: a call in which feature preparation or scoring raises leaves the
\* ledger and the cooldown table exactly as they were, and with them
\* everything else a later call reads (the configuration, the cooldown
\* duration, the detector and the clock), so that a later call with a complete
\* sample behaves as if the failed call had not happened.
C13_DetectErrorAbortsSample ==
    [][DetectRaisedStep =>
          /\ healing_history' = healing_history
          /\ last_actions' = last_actions
          /\ <<config', cooldown_period', is_trained', model', now'>>
                = <<config, cooldown_period, is_trained, model, now>>]_vars

\* C13 witness: detect raised on a sample that lacks a metric while the ledger
\* held entries and a kind was recorded in the cooldown table
C13_Witness ==
    /\ op = "analyze_and_heal"
    /\ raised
    /\ Get(arg) \in PartialSamples
    /\ healing_history # <<>>
    /\ \E k \in Kinds : last_actions[k] # NoEntry

\* C14: with two callers on one engine the cooldown check, the ledger append
\* and the cooldown record of a kind are one atomic unit, so in no
\* interleaving does the ledger get two entries of one kind whose timestamps
\* lie within one cooldown duration.
C14_SerializedDispatch ==
    \A i, j \in Ledger :
        (i < j /\ healing_history[i].action = healing_history[j].action)
            => healing_history[j].timestamp > healing_history[i].timestamp + cooldown_period

OutcomesNow(metrics) ==
    {r \in analyze_and_heal(Engine(healing_history, last_actions, log_ok, now),
                            config, is_trained, model, metrics) : r.t = now}

CorpusMean == Sample(40, 50, 200, 1)

\* a sample with each metric it lacks set to the corpus mean
Imputed(metrics) ==
    [f \in {feature_columns[i] : i \in 1..Len(feature_columns)} |->
        get(metrics, f, CorpusMean[f])]

\* C16: imputation. A call of a trained engine on a sample that lacks a
\* metric does not reject the sample, and its outcome is an outcome of the
\* call on the same sample with the metric set to the corpus mean.
C16_Imputation ==
    [][(/\ pc = "running"
        /\ is_trained
        /\ op' = "analyze_and_heal"
        /\ Get(arg') \in PartialSamples) =>
          /\ ~raised'
          /\ \E r \in analyze_and_heal(Engine(healing_history, last_actions, log_ok, now),
                                       config, is_trained, model, Imputed(Get(arg'))) :
                /\ r.ret = ret'
                /\ r.hist = healing_history'
                /\ r.la = last_actions']_vars

\* C17: the ledger is append-only and most-recent-last. While the engine
\* lives, every step keeps the entries the ledger holds, in their places, and
\* puts each new entry after them with a timestamp that is not earlier than
\* the timestamp of any entry before it.
C17_AppendOnlyLedger ==
    [][pc' # "start" =>
          /\ Len(healing_history') >= Len(healing_history)
          /\ SubSeq(healing_history', 1, Len(healing_history)) = healing_history
          /\ \A j \in (Len(healing_history) + 1)..Len(healing_history') :
                \A i \in 1..(j - 1) :
                    healing_history'[i].timestamp <= healing_history'[j].timestamp]_vars

\* C17 witness: a call appended two entries to a ledger that held an entry
\* with an earlier timestamp
C17_Witness ==
    /\ op = "analyze_and_heal"
    /\ ret # None
    /\ Len(Get(ret)) = 2
    /\ Len(healing_history) > 2
    /\ healing_history[1].timestamp < healing_history[Len(healing_history)].timestamp

\* C18: the life of the cooldown table. Construction leaves it empty; its
\* keys are among the four kinds; while the engine lives no step removes a
\* key or moves a timestamp back, and a step changes the timestamps of the
\* kinds it appended ledger entries for and of no other kind.
C18_CooldownTableLifecycle ==
    [][/\ (pc = "start" /\ pc' = "running") =>
              \A k \in Kinds : last_actions'[k] = NoEntry
       /\ {k \in DOMAIN last_actions' : last_actions'[k] # NoEntry} \subseteq Kinds
       /\ pc' # "start" =>
              \A k \in Kinds :
                  /\ last_actions[k] # NoEntry => last_actions'[k] # NoEntry
                  /\ last_actions'[k] >= last_actions[k]
                  /\ last_actions'[k] # last_actions[k] => k \in KindsOf(Appended)]_vars

\* C18 witness: one kind was recorded a second time, later than its first
\* ledger entry, another kept the earlier timestamp it was recorded with, and
\* a third was never recorded
C18_Witness ==
    \E k1, k2, k3 \in Kinds :
        /\ \E i \in Ledger :
              /\ healing_history[i].action = k1
              /\ healing_history[i].timestamp + cooldown_period < last_actions[k1]
        /\ last_actions[k2] # NoEntry
        /\ last_actions[k2] < last_actions[k1]
        /\ last_actions[k3] = NoEntry

\* the timestamp of the most recent ledger entry of kind k
LatestEntry(k) ==
    healing_history[Max({i \in Ledger : healing_history[i].action = k})].timestamp

\* the kinds with a cooldown entry are the kinds in the ledger, and no kind's
\* last-fired timestamp is earlier than its most recent ledger entry (nor,
\* then, than any earlier entry of the kind)
TableMatchesLedger ==
    /\ {k \in Kinds : last_actions[k] # NoEntry} = KindsOf(healing_history)
    /\ \A i \in Ledger : last_actions[healing_history[i].action] >= healing_history[i].timestamp

\* C19: the ledger and the cooldown table stay consistent. In every state a
\* step leads to (both are empty in the initial state)
\* the kinds with a cooldown entry are the kinds that occur in the ledger and
\* each kind's last-fired timestamp is not earlier than the timestamp of its
\* most recent ledger entry; the list a call returns is the sequence of
\* entries that call appended to the ledger.
C19_LedgerTableConsistency ==
    [][/\ TableMatchesLedger'
       /\ (CallStep /\ log_ok' = log_ok /\ ret' # None) => Get(ret') = Appended]_vars

\* C19 witness: a call returned two entries; two kinds have a cooldown entry
\* and one of them was recorded later than its ledger entry was stamped
C19_Witness ==
    /\ op = "analyze_and_heal"
    /\ ret # None
    /\ Len(Get(ret)) = 2
    /\ \E k \in KindsOf(healing_history) : last_actions[k] > LatestEntry(k)

\* C20: the persisted model blob never carries is_trained = false, so a
\* process that loaded a model never runs untrained.
C20_PersistedModelIsTrained ==
    model_file # NoFile => Get(model_file).is_trained

\* C21: system_logs never holds more than 100 entries, whatever the
\* interleaving of background detections and manual injections.
C21_SystemLogsBounded == Len(system_logs) <= SystemLogsCap

\* the time steps of the samples whose save_metrics call has returned
Saved ==
    (1..time_step) \ {Get(api[t].metrics).timestamp : t \in {u \in ApiThreads : api[u].pc = "saving"}}

\* C22: no lost update in the metric log. While the file has not reached
\* its cap, every sample whose save_metrics call has returned is in the file.
C22_NoLostUpdate ==
    time_step <= MetricsCap =>
        \A step \in Saved :
            \E i \in 1..Len(metrics_json) : metrics_json[i].timestamp = step

\* the recognized field an injectable type stands for
InjectedField(anomaly_type) ==
    CASE anomaly_type = "cpu" -> "cpu_usage"
      [] anomaly_type = "memory" -> "memory_usage"
      [] anomaly_type = "response_time" -> "response_time"

\* C23: anomaly injection reaches the detector's input. The sample that
\* generate_all_metrics(inject_anomaly=type) returned to the inject handler
\* holds, for type cpu, memory or response_time, a value inject_anomaly
\* returns for that type in cpu_usage, memory_usage or response_time, and has
\* no key besides the timestamp and the recognized fields.
C23_InjectionReachesDetector ==
    \A anomaly_type \in {"cpu", "memory", "response_time"} :
        (api["handler"].pc = "saving" /\ api["handler"].anomaly_type = Some(anomaly_type)) =>
            LET metrics == Get(api["handler"].metrics)
            IN  /\ Some(metrics[InjectedField(anomaly_type)]) \in inject_anomaly(anomaly_type)
                /\ DOMAIN metrics \subseteq
                      {"timestamp"} \cup {feature_columns[i] : i \in 1..Len(feature_columns)}

====
